---- MODULE Spec2Model ----
(***************************************************************************)
(* State-machine model of src/app/components/Portfolio.jsx:                *)
(*   - the contact form of Portfolio (handleSubmit, its relay request and  *)
(*     its revert timers),                                                 *)
(*   - the ThreeScene effect (mount, animate, updateConnections, cleanup). *)
(* Time of the form is counted in seconds, the scene clock in tenths of a  *)
(* second, lengths in half units (LenScale).                               *)
(***************************************************************************)
EXTENDS Integers, Sequences, FiniteSets

\* ------------------------------------------------------------------------
\* Bounds of the model
\* ------------------------------------------------------------------------
MaxSubmits == 2      \* handleSubmit calls that pass validation
MaxAlerts == 1       \* handleSubmit calls that fail validation

\* ------------------------------------------------------------------------
\* Program constants
\* ------------------------------------------------------------------------
SuccessRevertMs == 5000
ErrorRevertMs == 4000

FieldNames == {"name", "email", "message"}
FieldValues == {"", "a"}
EmptyForm == [name |-> "", email |-> "", message |-> ""]
Outcomes == {"success", "failure", "throw"}

VARIABLES
    formStatus,       \* useState("idle"): idle | sending | success | error
    formData,         \* useState({name, email, message})
    inflight,         \* relay requests issued by fetch and not yet settled
    timers,           \* pending setTimeout callbacks of handleSubmit
    requestsIssued,   \* number of fetch calls made so far
    validSubmits,     \* number of handleSubmit calls that passed validation
    alerts,           \* number of alert("Please fill in all fields.") calls
    statusTrace,      \* the successive values of formStatus
    lastEvent         \* the operation that produced the current state

formVars == <<formStatus, formData, inflight, timers, requestsIssued,
              validSubmits, alerts, statusTrace, lastEvent>>

VARIABLES
    theme,          \* useState("dark") of Portfolio
    storage,        \* localStorage["portfolio-theme"], "unset" before a write
    current,        \* the mount whose effect is live, 0 when unmounted
    mountCount,     \* runs of the effect's setup so far
    mounts,         \* the closure of each run of the effect
    raf,            \* animation-frame callbacks scheduled and not yet run
    nextRafId,      \* the id requestAnimationFrame returns next
    listeners,      \* listeners registered on window
    canvases,       \* renderer canvases that are children of the container
    created,        \* graphics resources created so far
    disposed,       \* graphics resources on which dispose() was called
    cleanupLog,     \* the steps of the latest cleanup, in order
    frameCount      \* animation-frame callbacks delivered so far

sceneVars == <<theme, storage, current, mountCount, mounts, raf, nextRafId,
               listeners, canvases, created, disposed, cleanupLog, frameCount>>

VARIABLES
    counterValue,     \* the value prop of the StatCounter, 0 before it mounts
    count,            \* useState(0) of StatCounter
    visible,          \* useState(false) of useReveal
    observing,        \* the IntersectionObserver of useReveal is connected
    intervalOn,       \* the setInterval timer of StatCounter is active
    start,            \* the local variable start of the counter effect
    ticks,            \* interval callbacks run since the effect started
    revealBatch       \* the entries of the latest observer callback

counterVars == <<counterValue, count, visible, observing, intervalOn, start,
                 ticks, revealBatch>>

VARIABLES
    activeSection,    \* useState("home") of Portfolio
    sectionObserving, \* the section observer of Portfolio is connected
    sectionBatch,     \* the entries of the latest section observer callback
    sceneFailed       \* the setup of ThreeScene threw

sectionVars == <<activeSection, sectionObserving, sectionBatch, sceneFailed>>

VARIABLE failedStep  \* index of the cleanup statement that threw, 0 if none

VARIABLES
    sectionHeight,    \* height of each section of the laid-out page, 0 before
    scrollY,          \* window.scrollY
    cursorPos         \* useState({x: 0, y: 0}) of Portfolio, as an index

layoutVars == <<sectionHeight, scrollY, cursorPos>>

shellVars == <<counterVars, sectionVars, failedStep, layoutVars>>

vars == <<formVars, sceneVars, shellVars>>

\* setFormStatus(s): the trace grows only when the value changes
SetStatusTrace(s) ==
    IF s = formStatus THEN statusTrace ELSE Append(statusTrace, s)

InitForm ==
    /\ formStatus = "idle"
    /\ formData = EmptyForm
    /\ inflight = {}
    /\ timers = {}
    /\ requestsIssued = 0
    /\ validSubmits = 0
    /\ alerts = 0
    /\ statusTrace = <<"idle">>
    /\ lastEvent = [op |-> "init", req |-> 0, ms |-> 0]

\* onChange of an input or of the textarea
EditField ==
    /\ \E f \in FieldNames, v \in FieldValues :
          /\ formData[f] # v
          /\ formData' = [formData EXCEPT ![f] = v]
    /\ lastEvent' = [op |-> "edit", req |-> 0, ms |-> 0]
    /\ UNCHANGED <<formStatus, inflight, timers, requestsIssued,
                   validSubmits, alerts, statusTrace>>

\* faulty variant: validation that looks at the name only
FailsValidation_NameOnly(d) == d.name = ""

\* !formData.name || !formData.email || !formData.message
FailsValidation(d) == d.name = "" \/ d.email = "" \/ d.message = ""

\* handleSubmit, validation branch: alert and return
SubmitRejected ==
    /\ formStatus # "sending"            \* the button is disabled while sending
    /\ FailsValidation(formData)
    /\ alerts < MaxAlerts
    /\ alerts' = alerts + 1
    /\ lastEvent' = [op |-> "rejected", req |-> 0, ms |-> 0]
    /\ UNCHANGED <<formStatus, formData, inflight, timers, requestsIssued,
                   validSubmits, statusTrace>>

\* handleSubmit up to the first await: setFormStatus("sending") and fetch
SubmitAccepted ==
    /\ formStatus # "sending"
    /\ ~FailsValidation(formData)
    /\ validSubmits < MaxSubmits
    /\ validSubmits' = validSubmits + 1
    /\ requestsIssued' = requestsIssued + 1
    /\ inflight' = inflight \cup {[id |-> requestsIssued + 1, body |-> formData]}
    /\ formStatus' = "sending"
    /\ statusTrace' = SetStatusTrace("sending")
    /\ lastEvent' = [op |-> "submit", req |-> requestsIssued + 1, ms |-> 0]
    /\ UNCHANGED <<formData, timers, alerts>>

\* faulty variant: the success branch without setFormData({name: "", ...})
OnSuccess_KeepsFields(r) ==
    /\ formStatus' = "success"
    /\ statusTrace' = SetStatusTrace("success")
    /\ timers' = timers \cup {[req |-> r.id, ms |-> SuccessRevertMs,
                               left |-> SuccessRevertMs \div 1000]}
    /\ inflight' = inflight \ {r}
    /\ UNCHANGED <<formData, requestsIssued>>

\* if (data.success): success, clear the fields, revert after 5 s
OnSuccess(r) ==
    /\ formStatus' = "success"
    /\ statusTrace' = SetStatusTrace("success")
    /\ formData' = EmptyForm
    /\ timers' = timers \cup {[req |-> r.id, ms |-> SuccessRevertMs,
                               left |-> SuccessRevertMs \div 1000]}
    /\ inflight' = inflight \ {r}
    /\ UNCHANGED requestsIssued

\* faulty variant: the error branch clearing the fields as the success branch does
OnFailure_ClearsFields(r) ==
    /\ formStatus' = "error"
    /\ statusTrace' = SetStatusTrace("error")
    /\ formData' = EmptyForm
    /\ timers' = timers \cup {[req |-> r.id, ms |-> ErrorRevertMs,
                               left |-> ErrorRevertMs \div 1000]}
    /\ inflight' = inflight \ {r}
    /\ UNCHANGED requestsIssued

\* faulty variant: the error branch resending the request once more
OnFailure_Retries(r) ==
    /\ formStatus' = "error"
    /\ statusTrace' = SetStatusTrace("error")
    /\ timers' = timers \cup {[req |-> r.id, ms |-> ErrorRevertMs,
                               left |-> ErrorRevertMs \div 1000]}
    /\ requestsIssued' = requestsIssued + 1
    /\ inflight' = (inflight \ {r}) \cup
                      {[id |-> requestsIssued + 1, body |-> r.body]}
    /\ UNCHANGED formData

\* faulty variant: the error branch without its setTimeout
OnFailure_NoTimer(r) ==
    /\ formStatus' = "error"
    /\ statusTrace' = SetStatusTrace("error")
    /\ inflight' = inflight \ {r}
    /\ UNCHANGED <<formData, requestsIssued, timers>>

\* else branch and catch branch: error, revert after 4 s
OnFailure(r) ==
    /\ formStatus' = "error"
    /\ statusTrace' = SetStatusTrace("error")
    /\ timers' = timers \cup {[req |-> r.id, ms |-> ErrorRevertMs,
                               left |-> ErrorRevertMs \div 1000]}
    /\ inflight' = inflight \ {r}
    /\ UNCHANGED <<formData, requestsIssued>>

\* handleSubmit after the awaits, for the relay's answer to request r
Continuation(r, outcome) ==
    IF outcome = "success" THEN OnSuccess(r) ELSE OnFailure(r)

\* the relay settles request r: {success: true}, {success: false} or a throw
RelayAnswers ==
    \E r \in inflight, outcome \in Outcomes :
        /\ Continuation(r, outcome)
        /\ lastEvent' = [op |-> outcome, req |-> r.id, ms |-> 0]
        /\ UNCHANGED <<validSubmits, alerts>>

\* () => setFormStatus("idle"), the callback of a revert timer that is due
TimerFires ==
    \E t \in timers :
        /\ t.left = 0
        /\ formStatus' = "idle"
        /\ statusTrace' = SetStatusTrace("idle")
        /\ timers' = timers \ {t}
        /\ lastEvent' = [op |-> "timer", req |-> t.req, ms |-> t.ms]
        /\ UNCHANGED <<formData, inflight, requestsIssued, validSubmits,
                       alerts>>

\* one second passes; a timer that is due fires before more time passes
Tick ==
    /\ timers # {}
    /\ \A t \in timers : t.left > 0
    /\ timers' = {[t EXCEPT !.left = t.left - 1] : t \in timers}
    /\ lastEvent' = [op |-> "tick", req |-> 0, ms |-> 0]
    /\ UNCHANGED <<formStatus, formData, inflight, requestsIssued,
                   validSubmits, alerts, statusTrace>>

\* ========================================================================
\* ThreeScene
\* ========================================================================
\* Bounds of the scene model.  The source builds nodeCount = 12 orbiting
\* nodes; the model builds MaxNodes of them.
MaxNodes == 3        \* orbiting nodes built by a mount
MaxMounts == 3       \* runs of the effect's setup
MaxFrames == 3       \* animation-frame callbacks the browser delivers

\* Lengths are counted in half units, distances in hundredths of a unit,
\* opacities in ten-thousandths, the clock in tenths of a second, angles in
\* quarter turns.
LenScale == 2
DistScale == 100
ConnectThreshold == 3
OpacityFactor == 1500
DarkLineOpacity == 1500
LightLineOpacity == 2500
ConnectionPeriod == 3
AngleSteps == 4

Cos4 == <<1, 0, -1, 0>>
Sin4 == <<0, 1, 0, -1>>

\* the advance of clock.getElapsedTime() between two frames, in tenths of a
\* second: the next frame falls into the same tenth or into the next one
Dts == {0, 1}

\* The draws of Math.random for one node that the model enumerates:
\* radius = 2 + r * 1.5, yOffset = (r - 0.5) * 2, speed and ySpeed in steps
\* of the angle and phase tables.
NodeStatics ==
    << [radius |-> 2, yOffset |-> 0,  speed |-> 1, ySpeed |-> 1],
       [radius |-> 2, yOffset |-> -1, speed |-> 1, ySpeed |-> 1],
       [radius |-> 3, yOffset |-> 0,  speed |-> 2, ySpeed |-> 2],
       [radius |-> 2, yOffset |-> 0,  speed |-> 2, ySpeed |-> 1] >>

NodeIds == 1..MaxNodes
AllDraws == [NodeIds -> 1..Len(NodeStatics)]
Seeds == {0, 1}
SeededDraws(seed) == [i \in NodeIds |-> ((seed + i) % Len(NodeStatics)) + 1]

\* the part of the state the effect's code reads and writes
World ==
    [mounts |-> mounts, raf |-> raf, nextRafId |-> nextRafId,
     listeners |-> listeners, canvases |-> canvases, created |-> created,
     disposed |-> disposed, cleanupLog |-> cleanupLog]

SetWorld(w) ==
    /\ mounts' = w.mounts
    /\ raf' = w.raf
    /\ nextRafId' = w.nextRafId
    /\ listeners' = w.listeners
    /\ canvases' = w.canvases
    /\ created' = w.created
    /\ disposed' = w.disposed
    /\ cleanupLog' = w.cleanupLog

\* ---- graphics resources ------------------------------------------------
Res(m, kind, i) == [mount |-> m, kind |-> kind, gen |-> 0, i |-> i, j |-> 0]

\* geometries, materials and the renderer constructed by the setup
StaticResources(m) ==
    {Res(m, k, 0) : k \in {"renderer", "centralGeometry", "centralMaterial",
                           "coreGeometry", "coreMaterial", "lineMaterial",
                           "particleGeometry", "particleMaterial"}}
    \cup {Res(m, k, i) : k \in {"ringGeometry", "ringMaterial"}, i \in 1..3}
    \cup {Res(m, k, i) : k \in {"nodeGeometry", "nodeMaterial"}, i \in NodeIds}
    \cup {Res(m, k, i) : k \in {"shapeGeometry", "shapeMaterial"}, i \in 1..6}

\* new BufferGeometry() and lineMaterial.clone() of one connector line
LineResources(l) ==
    {[mount |-> l.mount, kind |-> k, gen |-> l.gen, i |-> l.i, j |-> l.j] :
        k \in {"lineGeometry", "lineMaterialClone"}}

SeqToSet(q) == {q[k] : k \in 1..Len(q)}

\* ---- orbiting nodes ----------------------------------------------------
\* node.mesh.position for an angle, the node's draws and the elapsed time
NodePosition(angle, st, elapsed) ==
    [x |-> Cos4[(angle % AngleSteps) + 1] * st.radius * LenScale,
     y |-> st.yOffset * LenScale + Sin4[((elapsed * st.ySpeed) % AngleSteps) + 1],
     z |-> Sin4[(angle % AngleSteps) + 1] * st.radius * LenScale]

\* the nodes loop of the setup: angle = (i / nodeCount) * 2 PI
InitialNodes(draws) ==
    [i \in NodeIds |->
        LET st == NodeStatics[draws[i]]
            angle == ((i - 1) * AngleSteps) \div MaxNodes
        IN [angle |-> angle, st |-> st,
            pos |-> [x |-> Cos4[angle + 1] * st.radius * LenScale,
                     y |-> st.yOffset * LenScale,
                     z |-> Sin4[angle + 1] * st.radius * LenScale]]]

\* nodes.forEach of animate: node.angle += node.speed * 0.01, then position
MoveNodes(nodes, elapsed) ==
    [i \in NodeIds |->
        LET n == nodes[i]
            angle == (n.angle + n.st.speed) % AngleSteps
        IN [n EXCEPT !.angle = angle,
                     !.pos = NodePosition(angle, n.st, elapsed)]]

\* ---- connector lines ---------------------------------------------------
RECURSIVE ISqrtIn(_, _, _)
ISqrtIn(v, lo, hi) ==
    IF lo >= hi THEN lo
    ELSE LET mid == (lo + hi + 1) \div 2
         IN IF mid * mid <= v THEN ISqrtIn(v, mid, hi)
                              ELSE ISqrtIn(v, lo, mid - 1)

\* Math.sqrt, rounded down
ISqrt(v) == ISqrtIn(v, 0, IF v < 46340 THEN v ELSE 46340)

\* Vector3.distanceToSquared, in squared half units
DistanceToSquared(p, q) ==
    (p.x - q.x) * (p.x - q.x) + (p.y - q.y) * (p.y - q.y)
        + (p.z - q.z) * (p.z - q.z)

\* Vector3.distanceTo, in hundredths of a unit
DistanceTo(p, q) ==
    ISqrt((DistanceToSquared(p, q) * DistScale * DistScale)
              \div (LenScale * LenScale))

\* faulty variant: dist <= 3
WithinThreshold_Inclusive(dist) == dist <= ConnectThreshold * DistScale

\* dist < 3
WithinThreshold(dist) == dist < ConnectThreshold * DistScale

\* faulty variant: the clone keeps the opacity of lineMaterial
LineOpacity_OfTemplate(dist, isDark) ==
    IF isDark THEN DarkLineOpacity ELSE LightLineOpacity

\* lineMaterial.clone(), then line.material.opacity = 0.15 * (1 - dist / 3)
LineOpacity(dist, isDark) ==
    (OpacityFactor * (ConnectThreshold * DistScale - dist))
        \div (ConnectThreshold * DistScale)

\* faulty variant: the pair filter lets i = j and i > j through
SkipPair_Never(i, j) == FALSE

\* if (i >= j) return
SkipPair(i, j) == i >= j

\* the lines pushed by the two nested nodes.forEach loops, in push order
RECURSIVE ScanPairs(_, _, _, _, _, _)
ScanPairs(nodes, m, gen, isDark, i, j) ==
    IF i > MaxNodes THEN <<>>
    ELSE IF j > MaxNodes THEN ScanPairs(nodes, m, gen, isDark, i + 1, 1)
    ELSE LET dist == DistanceTo(nodes[i].pos, nodes[j].pos)
             rest == ScanPairs(nodes, m, gen, isDark, i, j + 1)
         IN IF ~SkipPair(i, j) /\ WithinThreshold(dist)
            THEN <<[mount |-> m, gen |-> gen, i |-> i, j |-> j,
                    a |-> nodes[i].pos, b |-> nodes[j].pos,
                    dist |-> dist,
                    opacity |-> LineOpacity(dist, isDark)]>> \o rest
            ELSE rest

\* faulty variant: the old lines are not removed from the scene
UpdateConnections_KeepsOld(w, m) ==
    LET c == w.mounts[m]
        gen == c.gen + 1
        lines == ScanPairs(c.nodes, m, gen, c.theme = "dark", 1, 1)
        fresh == UNION {LineResources(lines[k]) : k \in 1..Len(lines)}
        c2 == [c EXCEPT !.gen = gen,
                        !.sceneLines = c.sceneLines \cup SeqToSet(lines),
                        !.connectionLines = lines]
    IN [w EXCEPT !.mounts[m] = c2, !.created = w.created \cup fresh]

\* updateConnections of mount m
UpdateConnections(w, m) ==
    LET c == w.mounts[m]
        gen == c.gen + 1
        lines == ScanPairs(c.nodes, m, gen, c.theme = "dark", 1, 1)
        fresh == UNION {LineResources(lines[k]) : k \in 1..Len(lines)}
        c2 == [c EXCEPT !.gen = gen,
                        !.sceneLines = (c.sceneLines \ SeqToSet(c.connectionLines))
                                           \cup SeqToSet(lines),
                        !.connectionLines = lines]
    IN [w EXCEPT !.mounts[m] = c2, !.created = w.created \cup fresh]

\* ---- animate ------------------------------------------------------------
\* faulty variant: animId keeps the id of the first request only
StoreAnimId_FirstOnly(c, id) ==
    IF c.animId = 0 THEN [c EXCEPT !.animId = id] ELSE c

\* animId = requestAnimationFrame(animate)
StoreAnimId(c, id) == [c EXCEPT !.animId = id]

\* faulty variant: the connections are recomputed in every frame
ConnectionsDue_Always(elapsed) == TRUE

\* Math.floor(elapsed * 10) % 3 === 0, the clock counted in tenths
ConnectionsDue(elapsed) == elapsed % ConnectionPeriod = 0

\* one run of animate for mount m, the clock having advanced by d
Animate(w, m, d) ==
    LET c == w.mounts[m]
        id == w.nextRafId
        elapsed == c.elapsed + d
        c1 == [StoreAnimId(c, id) EXCEPT
                  !.elapsed = elapsed,
                  !.nodes = MoveNodes(c.nodes, elapsed),
                  !.animateRuns = c.animateRuns + 1,
                  !.updated = ConnectionsDue(elapsed)]
        w1 == [w EXCEPT !.mounts[m] = c1,
                        !.raf = w.raf \cup {[id |-> id, mount |-> m]},
                        !.nextRafId = id + 1]
    IN IF ConnectionsDue(elapsed) THEN UpdateConnections(w1, m) ELSE w1

\* ---- the effect: setup -------------------------------------------------
DarkParticles == 500
LightParticles == 300

\* const particleCount = isDark ? 500 : 300
ParticleCount(th) == IF th = "dark" THEN DarkParticles ELSE LightParticles

\* the objects the setup passes to scene.add, connector lines apart
SceneObjects ==
    {[kind |-> "ambientLight", i |-> 0]}
    \cup {[kind |-> "pointLight", i |-> i] : i \in 1..3}
    \cup {[kind |-> "centralSphere", i |-> 0], [kind |-> "core", i |-> 0]}
    \cup {[kind |-> "ring", i |-> i] : i \in 1..3}
    \cup {[kind |-> "node", i |-> i] : i \in NodeIds}
    \cup {[kind |-> "particles", i |-> 0]}
    \cup {[kind |-> "floatingShape", i |-> i] : i \in 1..6}

\* container.clientWidth x clientHeight, as the index of a window size
Sizes == {1, 2}

NewClosure(th, draws) ==
    [theme |-> th, animId |-> 0, cancelled |-> 0, elapsed |-> 0,
     animateRuns |-> 0, updated |-> FALSE, gen |-> 0,
     nodes |-> InitialNodes(draws), connectionLines |-> <<>>,
     sceneLines |-> {}, cleaned |-> FALSE,
     sceneObjects |-> SceneObjects, particleCount |-> ParticleCount(th),
     size |-> 1]

\* the body of useEffect for a new mount m with theme th
Setup(w, m, th, draws) ==
    LET w1 == [w EXCEPT
                  !.mounts = Append(w.mounts, NewClosure(th, draws)),
                  !.canvases = w.canvases \cup {m},
                  !.created = w.created \cup StaticResources(m),
                  !.listeners = w.listeners
                                   \cup {[type |-> "mousemove", owner |-> m]}]
        w2 == Animate(w1, m, 0)
    IN [w2 EXCEPT !.listeners = w2.listeners
                                   \cup {[type |-> "resize", owner |-> m]}]

\* ---- the effect: cleanup -----------------------------------------------
\* faulty variant: a cleanup that leaves the listener registered
RemoveListener_Noop(w, m, type) == w

\* window.removeEventListener(type, handler of mount m)
RemoveListener(w, m, type) ==
    [w EXCEPT !.listeners = w.listeners \ {[type |-> type, owner |-> m]}]

\* the statements of the cleanup function, in source order
CleanupSteps ==
    <<"cancelAnimationFrame", "removeMousemove", "removeResize",
      "disposeLines", "removeChild", "rendererDispose">>

CleanupStep(w, m, step) ==
    LET c == w.mounts[m]
        w1 == [w EXCEPT !.cleanupLog = Append(w.cleanupLog, step)]
    IN CASE step = "cancelAnimationFrame" ->
              [w1 EXCEPT !.raf = {cb \in w.raf : cb.id # c.animId},
                         !.mounts[m].cancelled = c.animId]
         [] step = "removeMousemove" -> RemoveListener(w1, m, "mousemove")
         [] step = "removeResize" -> RemoveListener(w1, m, "resize")
         [] step = "disposeLines" ->
              [w1 EXCEPT !.disposed = w.disposed \cup
                  UNION {LineResources(c.connectionLines[k]) :
                            k \in 1..Len(c.connectionLines)}]
         [] step = "removeChild" ->
              [w1 EXCEPT !.canvases = w.canvases \ {m}]
         [] step = "rendererDispose" ->
              [w1 EXCEPT !.disposed = w.disposed \cup {Res(m, "renderer", 0)}]

RECURSIVE RunSteps(_, _, _)
RunSteps(w, m, steps) ==
    IF steps = <<>> THEN w
    ELSE RunSteps(CleanupStep(w, m, Head(steps)), m, Tail(steps))

\* the function returned by the effect, for mount m
Cleanup(w, m) ==
    RunSteps([w EXCEPT !.mounts[m].cleaned = TRUE, !.cleanupLog = <<>>],
             m, CleanupSteps)

\* faulty variant: handleResize rebuilding the scene without the particles
HandleResize_DropsParticles(w, m, size) ==
    [w EXCEPT !.mounts[m].size = size,
              !.mounts[m].sceneObjects =
                  {o \in w.mounts[m].sceneObjects : o.kind # "particles"}]

\* handleResize of mount m: camera.aspect, renderer.setSize, uSize
HandleResize(w, m, size) == [w EXCEPT !.mounts[m].size = size]

\* the cleanup of mount m when its k-th statement throws: nothing catches
\* the exception, so the statements after it do not run
CleanupThrowing(w, m, k) ==
    RunSteps([w EXCEPT !.mounts[m].cleaned = TRUE, !.cleanupLog = <<>>],
             m, SubSeq(CleanupSteps, 1, k - 1))

\* ---- operations --------------------------------------------------------
PortfolioListener == [type |-> "mousemove", owner |-> 0]

InitScene ==
    /\ theme = "dark"
    /\ storage = "unset"
    /\ current = 0
    /\ mountCount = 0
    /\ mounts = <<>>
    /\ raf = {}
    /\ nextRafId = 1
    /\ listeners = {}
    /\ canvases = {}
    /\ created = {}
    /\ disposed = {}
    /\ cleanupLog = <<>>
    /\ frameCount = 0

\* Portfolio mounts with the given draws of Math.random: its cursor listener
\* is registered and the effect of ThreeScene runs with theme dark
MountWith(draws) ==
    /\ current = 0
    /\ mountCount < MaxMounts
    /\ theme' = "dark"
    /\ current' = mountCount + 1
    /\ mountCount' = mountCount + 1
    /\ SetWorld(Setup([World EXCEPT !.listeners = listeners \cup {PortfolioListener}],
                      mountCount + 1, "dark", draws))
    /\ UNCHANGED <<storage, frameCount>>

PageMount == \E seed \in Seeds : MountWith(SeededDraws(seed))

\* faulty variant: the new theme is always light
ToggledTheme_Light(th) == "light"

\* const newTheme = theme === "dark" ? "light" : "dark"
ToggledTheme(th) == IF th = "dark" THEN "light" ELSE "dark"

\* toggleTheme, and the re-render it causes: the effect's cleanup for the
\* old theme, then its setup for the new one
ToggleTheme ==
    /\ current # 0
    /\ mountCount < MaxMounts
    /\ LET newTheme == ToggledTheme(theme)
       IN /\ theme' = newTheme
          /\ storage' = newTheme
          /\ \E seed \in Seeds :
                SetWorld(Setup(Cleanup(World, current), mountCount + 1,
                               newTheme, SeededDraws(seed)))
    /\ current' = mountCount + 1
    /\ mountCount' = mountCount + 1
    /\ UNCHANGED frameCount

\* Portfolio unmounts: the effect's cleanup runs
PageUnmount ==
    /\ current # 0
    /\ LET w == Cleanup(World, current)
       IN SetWorld([w EXCEPT !.listeners = w.listeners \ {PortfolioListener}])
    /\ current' = 0
    /\ UNCHANGED <<theme, storage, mountCount, frameCount>>

\* Portfolio unmounts and one statement of the effect's cleanup throws
UnmountThrowing ==
    /\ current # 0
    /\ failedStep = 0
    /\ \E k \in DOMAIN CleanupSteps :
          /\ failedStep' = k
          /\ LET w == CleanupThrowing(World, current, k)
             IN SetWorld([w EXCEPT !.listeners = w.listeners \ {PortfolioListener}])
    /\ current' = 0
    /\ UNCHANGED <<theme, storage, mountCount, frameCount>>

\* the window is resized: the browser calls every resize listener
Resize ==
    /\ \E l \in listeners, size \in Sizes :
          /\ l.type = "resize"
          /\ size # mounts[l.owner].size
          /\ SetWorld(HandleResize(World, l.owner, size))
    /\ UNCHANGED <<theme, storage, current, mountCount, frameCount>>

\* the browser runs a scheduled animation-frame callback
Frame ==
    /\ frameCount < MaxFrames
    /\ \E cb \in raf, d \in Dts :
          SetWorld(Animate([World EXCEPT !.raf = raf \ {cb}], cb.mount, d))
    /\ frameCount' = frameCount + 1
    /\ UNCHANGED <<theme, storage, current, mountCount>>

NextScene ==
    \/ PageMount /\ UNCHANGED <<formVars, shellVars>>
    \/ ToggleTheme /\ UNCHANGED <<formVars, shellVars>>
    \/ PageUnmount /\ UNCHANGED <<formVars, shellVars>>
    \/ Frame /\ UNCHANGED <<formVars, shellVars>>

\* one mount with any enumerated draws, then frames
MountAnyDraws == \E draws \in AllDraws : MountWith(draws)

NextConnections ==
    \/ MountAnyDraws /\ UNCHANGED <<formVars, shellVars>>
    \/ Frame /\ UNCHANGED <<formVars, shellVars>>

\* faulty variant: an effect without a dependency array runs at every render
DepsChanged_Always(old, new) == TRUE

\* the dependency array [theme] of the effect, compared between two renders
DepsChanged(old, new) == old # new

\* ThreeScene renders again with the prop theme = th: the cleanup and the
\* setup of the effect run when the dependency has changed
RerenderScene(w, m, th, draws) ==
    IF DepsChanged(w.mounts[m].theme, th)
    THEN Setup(Cleanup(w, m), Len(w.mounts) + 1, th, draws)
    ELSE w

\* a state change of Portfolio that is no theme change renders the page
\* and with it ThreeScene again
RerenderPage ==
    /\ current # 0
    /\ \E seed \in Seeds :
          SetWorld(RerenderScene(World, current, theme, SeededDraws(seed)))
    /\ current' = Len(mounts')
    /\ mountCount' = Len(mounts')
    /\ UNCHANGED <<theme, storage, frameCount>>

CursorPositions == {0, 1, 2}

\* the mousemove handler of Portfolio: setCursorPos
CursorMove ==
    /\ PortfolioListener \in listeners
    /\ \E c \in CursorPositions \ {cursorPos} : cursorPos' = c
    /\ RerenderPage

\* the user types into a field of the contact form of the mounted page
EditFieldMounted == EditField /\ RerenderPage

NextRerender ==
    \/ PageMount /\ UNCHANGED <<formVars, shellVars>>
    \/ ToggleTheme /\ UNCHANGED <<formVars, shellVars>>
    \/ PageUnmount /\ UNCHANGED <<formVars, shellVars>>
    \/ CursorMove /\ UNCHANGED <<formVars, counterVars, sectionVars, failedStep,
                                 sectionHeight, scrollY>>
    \/ EditFieldMounted /\ UNCHANGED shellVars

NextPopulation ==
    \/ PageMount /\ UNCHANGED <<formVars, shellVars>>
    \/ ToggleTheme /\ UNCHANGED <<formVars, shellVars>>
    \/ Frame /\ UNCHANGED <<formVars, shellVars>>
    \/ Resize /\ UNCHANGED <<formVars, shellVars>>

NextTeardown ==
    \/ PageMount /\ UNCHANGED <<formVars, shellVars>>
    \/ Frame /\ UNCHANGED <<formVars, shellVars>>
    \/ UnmountThrowing /\ UNCHANGED <<formVars, counterVars, sectionVars, layoutVars>>

\* ========================================================================
\* useReveal and StatCounter
\* ========================================================================
MaxTarget == 100     \* largest value prop of a StatCounter

CounterSteps == 40
CounterPeriodMs == 30

Targets == 1..MaxTarget

\* the entries (isIntersecting) one callback of the observer may receive
RevealBatches ==
    UNION {[1..n -> BOOLEAN] : n \in 1..3}

InitCounter ==
    /\ counterValue = 0
    /\ count = 0
    /\ visible = FALSE
    /\ observing = FALSE
    /\ intervalOn = FALSE
    /\ start = 0
    /\ ticks = 0
    /\ revealBatch = <<>>

\* <StatCounter value={v}> mounts: useReveal's effect observes the element;
\* the counter effect returns at once because visible is false
CounterMount ==
    /\ ~sceneFailed
    /\ counterValue = 0
    /\ \E v \in Targets : counterValue' = v
    /\ observing' = TRUE
    /\ UNCHANGED <<count, visible, intervalOn, start, ticks, revealBatch>>

\* faulty variant: setVisible(e.isIntersecting)
Revealed_Follows(batch, vis) == batch[1]

\* ([e]) => { if (e.isIntersecting) setVisible(true); }
Revealed(batch, vis) == IF batch[1] THEN TRUE ELSE vis

\* the observer of useReveal delivers a batch of entries; when visible turns
\* true the counter effect runs: start = 0 and setInterval(..., 30)
RevealCallback ==
    /\ observing
    /\ \E batch \in RevealBatches :
          /\ revealBatch' = batch
          /\ visible' = Revealed(batch, visible)
          /\ IF visible' # visible
             THEN /\ intervalOn' = visible'
                  /\ start' = 0
                  /\ ticks' = 0
             ELSE UNCHANGED <<intervalOn, start, ticks>>
    /\ UNCHANGED <<counterValue, count, observing>>

\* faulty variant: Math.floor in place of Math.ceil
CounterStep_Floor(value) ==
    LET c == value \div CounterSteps
    IN IF c < 1 THEN 1 ELSE c

\* Math.max(1, Math.ceil(value / 40))
CounterStep(value) ==
    LET c == (value + CounterSteps - 1) \div CounterSteps
    IN IF c < 1 THEN 1 ELSE c

\* faulty variant: setCount(start) without the clamp to value
Shown_Unclamped(s, value) == s

\* if (start >= value) setCount(value) else setCount(start)
Shown(s, value) == IF s >= value THEN value ELSE s

\* the interval callback: start += step, setCount, clearInterval at the end
CounterTick ==
    /\ intervalOn
    /\ LET s == start + CounterStep(counterValue)
       IN /\ start' = s
          /\ count' = Shown(s, counterValue)
          /\ intervalOn' = (s < counterValue)
    /\ ticks' = ticks + 1
    /\ UNCHANGED <<counterValue, visible, observing, revealBatch>>

\* faulty variant: the cleanup leaves the interval running
CounterUnmount_KeepsTimer ==
    /\ observing
    /\ observing' = FALSE
    /\ UNCHANGED <<counterValue, count, visible, intervalOn, start, ticks,
                   revealBatch>>

\* the component unmounts: obs.disconnect() and clearInterval(timer)
CounterUnmount ==
    /\ observing
    /\ observing' = FALSE
    /\ intervalOn' = FALSE
    /\ UNCHANGED <<counterValue, count, visible, start, ticks, revealBatch>>

CounterMountStep == CounterMount /\ UNCHANGED <<formVars, sceneVars, sectionVars, failedStep, layoutVars>>
RevealCallbackStep == RevealCallback /\ UNCHANGED <<formVars, sceneVars, sectionVars, failedStep, layoutVars>>
CounterTickStep == CounterTick /\ UNCHANGED <<formVars, sceneVars, sectionVars, failedStep, layoutVars>>
CounterUnmountStep == CounterUnmount /\ UNCHANGED <<formVars, sceneVars, sectionVars, failedStep, layoutVars>>

NextCounter ==
    \/ CounterMountStep
    \/ RevealCallbackStep
    \/ CounterTickStep
    \/ CounterUnmountStep

\* ========================================================================
\* Section observer of Portfolio, and the failure of the scene setup
\* ========================================================================
Sections == <<"home", "about", "skills", "experience", "projects", "contact">>

\* intersection ratios are counted in hundredths
SectionThreshold == 30
Ratios == {SectionThreshold - 1, SectionThreshold, SectionThreshold + 1}

\* an IntersectionObserverEntry: outside the viewport the ratio is 0
SectionEntries ==
    {[target |-> Sections[i], isIntersecting |-> TRUE, intersectionRatio |-> r] :
        i \in DOMAIN Sections, r \in Ratios}
    \cup {[target |-> Sections[i], isIntersecting |-> FALSE, intersectionRatio |-> 0] :
        i \in DOMAIN Sections}

SectionBatches == UNION {[1..n -> SectionEntries] : n \in 1..2}

\* faulty variant: every entry sets the active section
Qualifies_Any(e) == TRUE

\* e.isIntersecting && e.intersectionRatio > 0.3
Qualifies(e) == e.isIntersecting /\ e.intersectionRatio > SectionThreshold

\* entries.forEach((e) => { if (...) setActiveSection(e.target.id); })
RECURSIVE ForEachEntry(_, _, _)
ForEachEntry(entries, i, active) ==
    IF i > Len(entries) THEN active
    ELSE ForEachEntry(entries, i + 1,
                      IF Qualifies(entries[i]) THEN entries[i].target ELSE active)

\* Portfolio mounts: useState("home"), the effect observes the six sections
SectionsObserve ==
    /\ ~sceneFailed
    /\ ~sectionObserving
    /\ sectionObserving' = TRUE
    /\ activeSection' = "home"
    /\ sectionBatch' = <<>>
    /\ UNCHANGED <<sceneFailed, counterVars>>

\* the observer delivers a batch of entries
SectionCallback ==
    /\ sectionObserving
    /\ \E entries \in SectionBatches :
          /\ sectionBatch' = entries
          /\ activeSection' = ForEachEntry(entries, 1, activeSection)
    /\ UNCHANGED <<sectionObserving, sceneFailed, counterVars>>

\* Portfolio unmounts: obs.disconnect()
SectionsDisconnect ==
    /\ sectionObserving
    /\ sectionObserving' = FALSE
    /\ UNCHANGED <<activeSection, sectionBatch, sceneFailed, counterVars>>

\* new THREE.WebGLRenderer throws inside the effect of ThreeScene: nothing
\* catches it and no error boundary surrounds <ThreeScene />, so React
\* unmounts the whole tree and the cleanups of the page run
SceneSetupThrows ==
    /\ ~sceneFailed
    /\ current = 0
    /\ sectionObserving
    /\ sceneFailed' = TRUE
    /\ sectionObserving' = FALSE
    /\ observing' = FALSE
    /\ intervalOn' = FALSE
    /\ UNCHANGED <<activeSection, sectionBatch, counterValue, count, visible,
                   start, ticks, revealBatch>>

NextSections ==
    \/ SectionsObserve /\ UNCHANGED <<formVars, sceneVars, failedStep, layoutVars>>
    \/ SectionCallback /\ UNCHANGED <<formVars, sceneVars, failedStep, layoutVars>>
    \/ SectionsDisconnect /\ UNCHANGED <<formVars, sceneVars, failedStep, layoutVars>>
    \/ SceneSetupThrows /\ UNCHANGED <<formVars, sceneVars, failedStep, layoutVars>>

\* ========================================================================
\* The section observer under scrolling
\* ========================================================================
\* The page is a column of the six sections, each sectionHeight high; the
\* viewport is ViewportHeight high.  Heights and scroll offsets are counted
\* in fifths of the viewport height.
ViewportHeight == 5
Heights == {5, 10, 20}

SectionTop(h, k) == (k - 1) * h

\* height of the part of section k inside the viewport scrolled to y
Overlap(h, y, k) ==
    LET top == IF SectionTop(h, k) > y THEN SectionTop(h, k) ELSE y
        bottom == IF SectionTop(h, k) + h < y + ViewportHeight
                  THEN SectionTop(h, k) + h ELSE y + ViewportHeight
    IN IF bottom > top THEN bottom - top ELSE 0

\* the IntersectionObserverEntry of section k, the ratio in hundredths
EntryAt(h, y, k) ==
    [target |-> Sections[k],
     isIntersecting |-> Overlap(h, y, k) > 0,
     intersectionRatio |-> (Overlap(h, y, k) * 100) \div h]

\* the observer, built with { threshold: 0.3 }, reports a section when its
\* ratio has passed 0.3 in either direction or isIntersecting has changed
Reported(h, y0, y1, k) ==
    LET e0 == EntryAt(h, y0, k)
        e1 == EntryAt(h, y1, k)
    IN \/ e0.isIntersecting # e1.isIntersecting
       \/ (e0.intersectionRatio >= SectionThreshold)
             # (e1.intersectionRatio >= SectionThreshold)

\* the entries of one callback, in the order the sections were observed
RECURSIVE EntriesFrom(_, _, _, _)
EntriesFrom(h, y0, y1, k) ==
    IF k > Len(Sections) THEN <<>>
    ELSE (IF Reported(h, y0, y1, k) THEN <<EntryAt(h, y1, k)>> ELSE <<>>)
            \o EntriesFrom(h, y0, y1, k + 1)

\* the first callback after observe() reports every section
RECURSIVE FirstEntries(_, _, _)
FirstEntries(h, y, k) ==
    IF k > Len(Sections) THEN <<>>
    ELSE <<EntryAt(h, y, k)>> \o FirstEntries(h, y, k + 1)

ScrollOffsets(h) == 0..(Len(Sections) * h - ViewportHeight)

\* Portfolio mounts on a page laid out with sections of height h, scrolled
\* to the top, and the observer delivers its first callback
LayoutAndObserve ==
    /\ ~sceneFailed
    /\ ~sectionObserving
    /\ sectionHeight = 0
    /\ \E h \in Heights :
          /\ sectionHeight' = h
          /\ sectionBatch' = FirstEntries(h, 0, 1)
          /\ activeSection' = ForEachEntry(FirstEntries(h, 0, 1), 1, "home")
    /\ scrollY' = 0
    /\ sectionObserving' = TRUE
    /\ UNCHANGED <<sceneFailed, counterVars>>

\* distance the page moves between two samples of the observer
ScrollSteps == 1..ViewportHeight

\* the page scrolls (wheel, or the smooth scrollIntoView of a navbar link)
\* up or down to offset y; the observer delivers the entries of the
\* sections it reports, if any
ScrollTo ==
    /\ sectionObserving
    /\ sectionHeight > 0
    /\ \E y \in {scrollY + d : d \in ScrollSteps} \cup {scrollY - d : d \in ScrollSteps} :
          /\ y \in ScrollOffsets(sectionHeight)
          /\ LET entries == EntriesFrom(sectionHeight, scrollY, y, 1)
             IN /\ scrollY' = y
                /\ sectionBatch' = IF entries = <<>> THEN sectionBatch ELSE entries
                /\ activeSection' = ForEachEntry(entries, 1, activeSection)
    /\ UNCHANGED <<sectionHeight, sectionObserving, sceneFailed, counterVars>>

NextScroll ==
    \/ LayoutAndObserve /\ UNCHANGED <<formVars, sceneVars, failedStep, cursorPos>>
    \/ ScrollTo /\ UNCHANGED <<formVars, sceneVars, failedStep, cursorPos>>

\* ========================================================================
\* Specifications
\* ========================================================================
NextForm ==
    \/ EditField /\ UNCHANGED <<sceneVars, shellVars>>
    \/ SubmitRejected /\ UNCHANGED <<sceneVars, shellVars>>
    \/ SubmitAccepted /\ UNCHANGED <<sceneVars, shellVars>>
    \/ RelayAnswers /\ UNCHANGED <<sceneVars, shellVars>>
    \/ TimerFires /\ UNCHANGED <<sceneVars, shellVars>>
    \/ Tick /\ UNCHANGED <<sceneVars, shellVars>>

InitSections ==
    /\ activeSection = "home"
    /\ sectionObserving = FALSE
    /\ sectionBatch = <<>>
    /\ sceneFailed = FALSE

InitLayout ==
    /\ sectionHeight = 0
    /\ scrollY = 0
    /\ cursorPos = 0

Init ==
    /\ InitForm
    /\ InitScene
    /\ InitCounter
    /\ InitSections
    /\ failedStep = 0
    /\ InitLayout

Next ==
    \/ NextForm
    \/ NextScene
    \/ NextCounter
    \/ NextSections
    \/ NextTeardown
    \/ NextPopulation
    \/ NextRerender
    \/ NextScroll

Spec == Init /\ [][Next]_vars

\* the contact form alone
SpecForm == Init /\ [][NextForm]_vars

\* the contact form, every request settling and every timer firing in the end
SpecFormFair ==
    /\ SpecForm
    /\ WF_vars(RelayAnswers /\ UNCHANGED <<sceneVars, shellVars>>)
    /\ WF_vars(TimerFires /\ UNCHANGED <<sceneVars, shellVars>>)
    /\ WF_vars(Tick /\ UNCHANGED <<sceneVars, shellVars>>)

\* the scene's life cycle
SpecScene == Init /\ [][NextScene]_vars

\* one mount of the scene, over all enumerated node draws
SpecConnections == Init /\ [][NextConnections]_vars

\* the scene's life cycle among renders caused by other state of the page
SpecRerender == Init /\ [][NextRerender]_vars

\* the scene's life cycle with resizes of the window
SpecPopulation == Init /\ [][NextPopulation]_vars

\* mounts of the scene whose cleanup throws at one of its statements
SpecTeardown == Init /\ [][NextTeardown]_vars

\* the section observer of the page, and a scene whose setup throws
SpecSections == Init /\ [][NextSections]_vars

\* the section observer of a page that is scrolled
SpecScroll == Init /\ [][NextScroll]_vars

\* one StatCounter with its useReveal
SpecCounter == Init /\ [][NextCounter]_vars

\* the same, the browser running the interval callback as long as the timer
\* is active
SpecCounterFair == SpecCounter /\ WF_vars(CounterTickStep)

\* ------------------------------------------------------------------------
\* Contact form properties
\* ------------------------------------------------------------------------
AllFilled(d) == d.name # "" /\ d.email # "" /\ d.message # ""

NewTimers == timers' \ timers

\* C1: a submission with the three fields filled takes the form from idle to
\* sending; a relay answer with success = true takes it to success, resets
\* the three fields to "" and starts the 5 s timer; the firing of that timer
\* takes it to idle.  With one submission the status runs exactly
\* idle, sending, success, idle.
C1_SuccessPath ==
    [][ /\ (lastEvent'.op = "submit" /\ formStatus = "idle"
               => AllFilled(formData) /\ formStatus' = "sending")
        /\ (lastEvent'.op = "success"
               => /\ formStatus' = "success"
                  /\ formData' = [name |-> "", email |-> "", message |-> ""]
                  /\ NewTimers = {[req |-> lastEvent'.req, ms |-> 5000, left |-> 5]})
        /\ (lastEvent'.op = "success" /\ validSubmits = 1
               => formStatus = "sending"
                  /\ statusTrace' = <<"idle", "sending", "success">>)
        /\ (lastEvent'.op = "timer" /\ lastEvent'.ms = 5000
               => formStatus' = "idle")
        /\ (lastEvent'.op = "timer" /\ lastEvent'.ms = 5000 /\ validSubmits = 1
               => statusTrace' = <<"idle", "sending", "success", "idle">>)
      ]_vars

C1_Witness ==
    /\ lastEvent = [op |-> "timer", req |-> 1, ms |-> 5000]
    /\ statusTrace = <<"idle", "sending", "success", "idle">>
    /\ formData = EmptyForm

\* C2: a relay answer with success = false, or a throwing fetch / res.json(),
\* takes the form from sending to error and leaves name, email and message
\* as they were; the 4 s timer then takes it to idle, again without touching
\* the fields.
C2_FailurePath ==
    [][ /\ (lastEvent'.op \in {"failure", "throw"}
               => /\ formStatus' = "error"
                  /\ formData' = formData
                  /\ NewTimers = {[req |-> lastEvent'.req, ms |-> 4000, left |-> 4]})
        /\ (lastEvent'.op \in {"failure", "throw"} /\ validSubmits = 1
               => formStatus = "sending"
                  /\ statusTrace' = <<"idle", "sending", "error">>)
        /\ (lastEvent'.op = "timer" /\ lastEvent'.ms = 4000
               => formStatus' = "idle" /\ formData' = formData)
        /\ (lastEvent'.op = "timer" /\ lastEvent'.ms = 4000 /\ validSubmits = 1
               => statusTrace' = <<"idle", "sending", "error", "idle">>)
      ]_vars

C2_Witness ==
    /\ lastEvent = [op |-> "timer", req |-> 1, ms |-> 4000]
    /\ statusTrace = <<"idle", "sending", "error", "idle">>
    /\ formData = [name |-> "a", email |-> "a", message |-> "a"]

\* C3: a handleSubmit call with an empty field changes neither the status nor
\* the fields and issues no request; a request is only ever issued with the
\* three fields filled.
C3_ValidationBlocks ==
    [][ /\ (lastEvent'.op = "rejected"
               => /\ ~AllFilled(formData)
                  /\ formStatus' = formStatus
                  /\ formStatus' # "sending"
                  /\ formData' = formData
                  /\ requestsIssued' = requestsIssued
                  /\ inflight' = inflight)
        /\ (requestsIssued' # requestsIssued
              \/ (formStatus # "sending" /\ formStatus' = "sending")
               => AllFilled(formData))
      ]_vars

C3_Witness ==
    /\ lastEvent.op = "rejected"
    /\ formStatus = "idle"
    /\ formData = [name |-> "a", email |-> "", message |-> "a"]
    /\ requestsIssued = 0
    /\ alerts = 1

\* C4: the number of requests issued always equals the number of handleSubmit
\* calls that passed validation; only such a call issues a request (an
\* answer of the relay, failing or not, and a timer never do).
C4_OneRequestPerSubmit ==
    [][ /\ requestsIssued' = validSubmits'
        /\ (lastEvent'.op # "submit"
               => requestsIssued' = requestsIssued /\ inflight' \subseteq inflight)
        /\ (lastEvent'.op = "submit"
               => requestsIssued' = requestsIssued + 1
                  /\ Cardinality(inflight' \ inflight) = 1)
      ]_vars

C4_Witness ==
    /\ validSubmits = 2
    /\ requestsIssued = 2
    /\ inflight = {}
    /\ lastEvent.op = "timer"
    /\ \E i \in 1..Len(statusTrace) : statusTrace[i] = "error"

\* ------------------------------------------------------------------------
\* Scene properties
\* ------------------------------------------------------------------------
MountIds == 1..mountCount

SceneListeners(type) == {l \in listeners : l.type = type /\ l.owner # 0}

ResourcesOf(m) == {r \in created : r.mount = m}

LineResourcesOf(m) ==
    {r \in created : r.mount = m /\ r.kind \in {"lineGeometry", "lineMaterialClone"}}

\* C5: after a mount that is unmounted before any frame is delivered, in
\* either theme, the scene has no mousemove or resize listener on window,
\* its canvas is no child of the container, and every geometry, material and
\* renderer the mount created has been disposed.
C5_NothingRetainedAfterUnmount ==
    \A m \in MountIds :
        mounts[m].cleaned /\ mounts[m].animateRuns = 1
            => /\ \A l \in listeners : l.owner # m
               /\ m \notin canvases
               /\ ResourcesOf(m) \subseteq disposed

\* C6: whatever the sequence of theme toggles, every mount but the live one
\* has been cleaned up, and there is at most one animation-frame callback
\* scheduled, one mousemove and one resize listener of the scene, and one
\* canvas in the container, all of them belonging to the live mount.
C6_SingleLiveScene ==
    /\ \A m \in MountIds : m # current => mounts[m].cleaned
    /\ Cardinality(raf) <= 1
    /\ Cardinality(SceneListeners("mousemove")) <= 1
    /\ Cardinality(SceneListeners("resize")) <= 1
    /\ Cardinality(canvases) <= 1
    /\ \A cb \in raf : cb.mount = current
    /\ \A l \in listeners : l.owner \in {0, current}
    /\ \A m \in canvases : m = current

C6_Witness ==
    /\ mountCount = 3
    /\ frameCount = 0
    /\ current = 3
    /\ theme = "dark"
    /\ storage = "dark"
    /\ Cardinality(raf) = 1
    /\ Cardinality(SceneListeners("mousemove")) = 1

Position(log, step) ==
    IF \E k \in 1..Len(log) : log[k] = step
    THEN CHOOSE k \in 1..Len(log) : log[k] = step
    ELSE 0

\* C7: the cleanup cancels exactly the one callback that is scheduled, and
\* does so before it removes a listener or disposes anything; once the
\* cleanup of a mount has run, animate never runs for that mount again.
C7_CancelledForGood ==
    [][ \A m \in MountIds :
          /\ (~mounts[m].cleaned /\ mounts'[m].cleaned
                => /\ raf = {[id |-> mounts'[m].cancelled, mount |-> m]}
                   /\ \A cb \in raf' : cb.mount # m
                   /\ Position(cleanupLog', "cancelAnimationFrame") = 1
                   /\ \A k \in 2..Len(cleanupLog') :
                         cleanupLog'[k] # "cancelAnimationFrame"
                   /\ Len(cleanupLog') = 6)
          /\ (mounts[m].cleaned
                => /\ mounts'[m].animateRuns = mounts[m].animateRuns
                   /\ \A cb \in raf' : cb.mount # m)
      ]_vars

C7_Witness ==
    \E m \in MountIds :
        /\ mounts[m].cleaned
        /\ mounts[m].animateRuns = 3
        /\ mounts[m].cancelled = 3
        /\ current > m
        /\ mounts[current].animateRuns = 2

\* C8: once a mount is cleaned up, the geometry and the cloned material of
\* every connector line it generated, at whichever recomputation, have been
\* disposed.
C8_AllSegmentsDisposed ==
    \A m \in MountIds :
        mounts[m].cleaned => LineResourcesOf(m) \subseteq disposed

\* C9: right after updateConnections, connectionLines holds exactly one line
\* for each pair i < j of nodes at a distance below 3 (36 in squared half
\* units), between the nodes' current positions, and nothing else.
C9_ConnectorMembership ==
    \A m \in MountIds :
        mounts[m].updated =>
            LET c == mounts[m]
                lines == c.connectionLines
                pairs == {<<lines[k].i, lines[k].j>> : k \in 1..Len(lines)}
                close == {p \in NodeIds \X NodeIds :
                             /\ p[1] < p[2]
                             /\ DistanceToSquared(c.nodes[p[1]].pos,
                                                  c.nodes[p[2]].pos) < 36}
            IN /\ pairs = close
               /\ Len(lines) = Cardinality(close)
               /\ \A k \in 1..Len(lines) :
                     /\ lines[k].i # lines[k].j
                     /\ lines[k].a = c.nodes[lines[k].i].pos
                     /\ lines[k].b = c.nodes[lines[k].j].pos

C9_Witness ==
    \E m \in MountIds :
        /\ mounts[m].updated
        /\ Len(mounts[m].connectionLines) >= 2
        /\ \E i, j \in NodeIds :
              /\ i < j
              /\ DistanceToSquared(mounts[m].nodes[i].pos,
                                   mounts[m].nodes[j].pos) = 36

CounterSettles ==
    /\ count' <= counterValue'
    /\ (count # counterValue' /\ count' = counterValue') => ~intervalOn'
    /\ (intervalOn /\ ~intervalOn' /\ observing') => count' = counterValue
    /\ (counterValue > 0 /\ count = counterValue) => count' = count

C11_CounterTerminates ==
    /\ [][CounterSettles]_vars
    /\ (visible /\ observing) ~> (count = counterValue \/ ~observing)

C11_Witness ==
    /\ observing
    /\ visible
    /\ ~intervalOn
    /\ ticks > 1
    /\ start > counterValue
    /\ count = counterValue

\* ------------------------------------------------------------------------
\* C12  Within one mount of useReveal the visible flag starts false and,
\*      once true, stays true whatever entries later callbacks deliver.
\* ------------------------------------------------------------------------
C12_RevealOneWay ==
    /\ [](counterValue = 0 => ~visible)
    /\ [][visible => visible']_vars

C12_Witness ==
    /\ visible
    /\ revealBatch # <<>>
    /\ \A i \in DOMAIN revealBatch : ~revealBatch[i]

\* ------------------------------------------------------------------------
\* C13  After a callback whose batch contains an intersecting entry, at any
\*      position, the visible flag is true.
\* ------------------------------------------------------------------------
C13_RevealedByAnyEntry ==
    (\E i \in DOMAIN revealBatch : revealBatch[i]) => visible

\* ------------------------------------------------------------------------
\* C14  A callback with a single entry makes the entry's section current
\*      exactly when the entry is intersecting with a ratio of at least
\*      0.30, the boundary included.
\* ------------------------------------------------------------------------
AtLeastThreshold(e) == e.isIntersecting /\ e.intersectionRatio >= SectionThreshold

SectionCallbackStep == sectionObserving /\ sectionObserving' /\ sectionBatch' # <<>>

C14_ThresholdInclusive ==
    [][(SectionCallbackStep /\ Len(sectionBatch') = 1) =>
          activeSection' = IF AtLeastThreshold(sectionBatch'[1])
                           THEN sectionBatch'[1].target
                           ELSE activeSection]_vars

\* ------------------------------------------------------------------------
\* C15  After a callback with several entries at or above the 0.30
\*      threshold the current section is the target of the last of them.
\* ------------------------------------------------------------------------
Reaching(entries) == {i \in DOMAIN entries : AtLeastThreshold(entries[i])}

LastOf(S) == CHOOSE i \in S : \A j \in S : j <= i

C15_LastQualifyingWins ==
    [][(SectionCallbackStep /\ Cardinality(Reaching(sectionBatch')) > 1) =>
          activeSection' = sectionBatch'[LastOf(Reaching(sectionBatch'))].target]_vars

\* ------------------------------------------------------------------------
\* C16  After the setup of the scene has thrown, the section observer of
\*      the page is still connected.
\* ------------------------------------------------------------------------
C16_ShellSurvivesSceneFailure ==
    sceneFailed => sectionObserving

\* ------------------------------------------------------------------------
\* C17  Every toggle flips the theme and stores the new theme; no other
\*      step writes the stored value or changes the theme of a mounted
\*      page, so after one or more toggles the stored value is the theme.
\* ------------------------------------------------------------------------
ToggleStep == current # 0 /\ current' # 0 /\ current' # current

C17_ThemePersisted ==
    [][/\ ToggleStep =>
            /\ theme' \in {"dark", "light"}
            /\ theme' # theme
            /\ storage' = theme'
       /\ ~ToggleStep => storage' = storage
       /\ (~ToggleStep /\ current # 0) => theme' = theme]_vars

C17_Witness ==
    /\ current # 0
    /\ mountCount > 2
    /\ storage = "dark"
    /\ theme = "dark"

\* ------------------------------------------------------------------------
\* C18  The form leaves success only by the firing of the 5 s timer started
\*      when it entered success, and leaves error only by the firing of the
\*      4 s timer started when it entered error: no timer of the same
\*      length is still running when the state ends.
\* ------------------------------------------------------------------------
RevertedBy(ms) ==
    /\ lastEvent'.op = "timer"
    /\ lastEvent'.ms = ms
    /\ \A t \in timers' : t.ms = ms => t.left = 0

C18_RevertOnTime ==
    [][/\ (formStatus = "success" /\ formStatus' = "idle")
            => RevertedBy(SuccessRevertMs)
       /\ (formStatus = "error" /\ formStatus' = "idle")
            => RevertedBy(ErrorRevertMs)]_vars

\* ------------------------------------------------------------------------
\* C19  After a cleanup in which one statement threw, every other statement
\*      of the cleanup has run.
\* ------------------------------------------------------------------------
C19_OtherStepsCarriedOut ==
    failedStep # 0 =>
        \A i \in DOMAIN CleanupSteps \ {failedStep} :
            CleanupSteps[i] \in SeqToSet(cleanupLog)

\* ------------------------------------------------------------------------
\* C20  A frame runs updateConnections exactly when the elapsed time of the
\*      frame, in tenths of a second, is a multiple of three; any other
\*      frame leaves the connector lines as they were while the nodes move.
\* ------------------------------------------------------------------------
FrameOf(m) ==
    /\ m \in DOMAIN mounts
    /\ m \in DOMAIN mounts'
    /\ mounts'[m].animateRuns = mounts[m].animateRuns + 1

C20_ConnectionCadence ==
    [][\A m \in 1..MaxMounts :
          FrameOf(m) =>
              IF mounts'[m].elapsed % ConnectionPeriod = 0
              THEN /\ mounts'[m].gen = mounts[m].gen + 1
                   /\ \A k \in 1..Len(mounts'[m].connectionLines) :
                         /\ mounts'[m].connectionLines[k].gen = mounts'[m].gen
                         /\ mounts'[m].connectionLines[k].a
                               = mounts'[m].nodes[mounts'[m].connectionLines[k].i].pos
              ELSE /\ mounts'[m].gen = mounts[m].gen
                   /\ mounts'[m].connectionLines = mounts[m].connectionLines
                   /\ mounts'[m].sceneLines = mounts[m].sceneLines]_vars

C20_Witness ==
    \E m \in MountIds :
        /\ mounts[m].animateRuns > 1
        /\ mounts[m].elapsed % ConnectionPeriod # 0
        /\ \E k \in 1..Len(mounts[m].connectionLines) :
              mounts[m].connectionLines[k].a
                 # mounts[m].nodes[mounts[m].connectionLines[k].i].pos

\* ------------------------------------------------------------------------
\* C23  While the container has not become visible the count is 0; after
\*      the k-th tick that follows visibility the count is the smaller of
\*      k * ceil(target / 40) and the target.
\* ------------------------------------------------------------------------
CeilOfFortieth(v) ==
    CHOOSE c \in 0..v : c * CounterSteps >= v /\ (c - 1) * CounterSteps < v

Smaller(a, b) == IF a < b THEN a ELSE b

C23_StepRule ==
    count = IF visible
            THEN Smaller(ticks * CeilOfFortieth(counterValue), counterValue)
            ELSE 0

C23_Witness ==
    /\ visible
    /\ ticks >= 2
    /\ CeilOfFortieth(counterValue) >= 2
    /\ count = ticks * CeilOfFortieth(counterValue)
    /\ count < counterValue

\* ------------------------------------------------------------------------
\* C27  The count of a mounted counter lies between 0 and the target, never
\*      decreases, and does not change once the component has unmounted.
\* ------------------------------------------------------------------------
C27_CounterBounds ==
    /\ [](counterValue > 0 => (0 <= count /\ count <= counterValue))
    /\ [][count' >= count]_vars
    /\ [][(counterValue > 0 /\ ~observing) => count' = count]_vars

C27_Witness ==
    /\ counterValue > 0
    /\ ~observing
    /\ 0 < count
    /\ count < counterValue

\* ------------------------------------------------------------------------
\* C25  While a relay request is unresolved the form status is sending, and
\*      at most one request is unresolved at a time.
\* ------------------------------------------------------------------------
C25_InFlightExclusion ==
    /\ inflight # {} => formStatus = "sending"
    /\ Cardinality(inflight) <= 1

\* ------------------------------------------------------------------------
\* C26  When every request settles and every timer fires, a form that is
\*      not idle becomes idle, and after the last submission the form ends
\*      idle for good with no request and no timer outstanding.
\* ------------------------------------------------------------------------
C26_FormSettles ==
    /\ (formStatus # "idle") ~> (formStatus = "idle")
    /\ <>[](formStatus = "idle" /\ inflight = {} /\ timers = {})

C26_Witness ==
    /\ validSubmits = MaxSubmits
    /\ formStatus = "idle"
    /\ inflight = {}
    /\ timers = {}
    /\ \E k \in 1..Len(statusTrace) : statusTrace[k] = "error"

\* ------------------------------------------------------------------------
\* C29  The current section is always one of the six named sections and is
\*      home until a callback arrives; while the observer is connected it
\*      changes only to the target of an intersecting entry at or above the
\*      threshold, so an entry reporting that the current section has left
\*      the viewport does not clear it.
\* ------------------------------------------------------------------------
SectionNames == {Sections[i] : i \in DOMAIN Sections}

C29_CurrentSectionRange ==
    /\ [](activeSection \in SectionNames)
    /\ [](sectionBatch = <<>> => activeSection = "home")
    /\ [][(sectionObserving /\ sectionObserving' /\ activeSection' # activeSection)
             => \E i \in DOMAIN sectionBatch' :
                   /\ AtLeastThreshold(sectionBatch'[i])
                   /\ sectionBatch'[i].target = activeSection']_vars

C29_Witness ==
    /\ sectionObserving
    /\ activeSection = "about"
    /\ Len(sectionBatch) = 1
    /\ sectionBatch[1].target = "about"
    /\ ~sectionBatch[1].isIntersecting

\* ------------------------------------------------------------------------
\* C30  Whatever the height of the sections, once the page is scrolled so
\*      that a section covers the whole viewport that section is the
\*      current section.
\* ------------------------------------------------------------------------
FillsViewport(k) ==
    /\ sectionHeight > 0
    /\ Overlap(sectionHeight, scrollY, k) = ViewportHeight

C30_FillingSectionIsCurrent ==
    \A k \in DOMAIN Sections :
        FillsViewport(k) => activeSection = Sections[k]

\* ------------------------------------------------------------------------
\* C28  In every state the connector lines in the scene of a mount are
\*      exactly the elements of connectionLines, each once, and there are
\*      no more of them than unordered pairs of nodes.
\* ------------------------------------------------------------------------
NodePairs == (MaxNodes * (MaxNodes - 1)) \div 2

C28_ConnectorBookkeeping ==
    \A m \in MountIds :
        /\ mounts[m].sceneLines = SeqToSet(mounts[m].connectionLines)
        /\ Cardinality(mounts[m].sceneLines) = Len(mounts[m].connectionLines)
        /\ Len(mounts[m].connectionLines) <= NodePairs

C28_Witness ==
    \E m \in MountIds :
        /\ mounts[m].gen >= 3
        /\ mounts[m].animateRuns > mounts[m].gen
        /\ Len(mounts[m].connectionLines) = NodePairs
        /\ \A k \in 1..Len(mounts[m].connectionLines) :
              mounts[m].connectionLines[k].gen = mounts[m].gen

\* ------------------------------------------------------------------------
\* C21  Two mounts built from the same draws whose clocks show the same
\*      elapsed time have their orbiting nodes at the same positions,
\*      however many frames each of them has run.
\* ------------------------------------------------------------------------
SameStatics(m1, m2) ==
    \A i \in NodeIds : mounts[m1].nodes[i].st = mounts[m2].nodes[i].st

C21_TransformsFollowElapsed ==
    \A m1, m2 \in MountIds :
        (SameStatics(m1, m2) /\ mounts[m1].elapsed = mounts[m2].elapsed)
            => \A i \in NodeIds :
                  mounts[m1].nodes[i].pos = mounts[m2].nodes[i].pos

\* ------------------------------------------------------------------------
\* C22  Every mount's scene holds, connector lines apart, one ambient
\*      light, three point lights, the central sphere, the core, three
\*      rings, the orbiting nodes, one particle field of 500 points in dark
\*      mode or 300 in light mode and six floating shapes; no step after
\*      the setup adds or removes one of them.
\* ------------------------------------------------------------------------
CountOf(objects, kind) == Cardinality({o \in objects : o.kind = kind})

C22_FixedPopulation ==
    /\ [](\A m \in MountIds :
            LET objects == mounts[m].sceneObjects
            IN /\ CountOf(objects, "ambientLight") = 1
               /\ CountOf(objects, "pointLight") = 3
               /\ CountOf(objects, "centralSphere") = 1
               /\ CountOf(objects, "core") = 1
               /\ CountOf(objects, "ring") = 3
               /\ CountOf(objects, "node") = MaxNodes
               /\ CountOf(objects, "particles") = 1
               /\ CountOf(objects, "floatingShape") = 6
               /\ Cardinality(objects) = 16 + MaxNodes
               /\ mounts[m].particleCount
                     = IF mounts[m].theme = "dark" THEN 500 ELSE 300)
    /\ [][\A m \in MountIds :
            /\ mounts'[m].sceneObjects = mounts[m].sceneObjects
            /\ mounts'[m].particleCount = mounts[m].particleCount]_vars

C22_Witness ==
    \E m \in MountIds :
        /\ mounts[m].theme = "light"
        /\ mounts[m].size = 2
        /\ mounts[m].gen >= 2
        /\ mounts[m].connectionLines # <<>>
        /\ ~mounts[m].cleaned

\* ------------------------------------------------------------------------
\* C24  While the page stays mounted the scene is torn down and built
\*      again exactly in the steps that change the theme; a step that
\*      leaves the theme alone runs neither the cleanup nor the setup, and
\*      the live scene always carries the theme of the page.
\* ------------------------------------------------------------------------
StaysMounted == current # 0 /\ current' # 0

C24_RebuiltOnlyOnThemeChange ==
    /\ [](current # 0 =>
            /\ mounts[current].theme = theme
            /\ ~mounts[current].cleaned)
    /\ [][StaysMounted =>
            /\ (current' # current) <=> (theme' # theme)
            /\ (theme' = theme) =>
                  /\ mounts' = mounts
                  /\ cleanupLog' = cleanupLog
                  /\ created' = created
                  /\ listeners' = listeners]_vars

C24_Witness ==
    /\ current = 2
    /\ theme = "light"
    /\ cursorPos = 2
    /\ formData.name = "a"
    /\ mounts[current].theme = "light"

====
